---- MODULE Spec2Model ----
(***************************************************************************)
(* Model of the group voting coordinator of app/services/group_scheduler.py *)
(* (process_vote, close_voting) with its collaborators                      *)
(* register_calendar_event (google_calendar.py) and                         *)
(* MessagingApi.push_message.                                               *)
(*                                                                          *)
(* Strings that the code concatenates or splits (group ids, event titles)   *)
(* are sequences of one-character strings, so that the f-string             *)
(* f"{group_id}_{event_title}" is a real concatenation.  A Python dict is a *)
(* function whose DOMAIN is its key set; the dict "votes" of a session,     *)
(* whose iteration order the code relies on, is a sequence of               *)
(* [user, index] entries in insertion order.                                *)
(***************************************************************************)
EXTENDS Integers, Sequences, FiniteSets, TLC

\* ---------------------------------------------------------------- bounds
\* option indices submitted with a ballot range over 0..MaxIndex
MaxIndex == 1
\* number of handler calls explored in one behaviour
MaxOps == 3

\* ---------------------------------------------------------------- inputs
Users == {"A", "B"}
\* the polls posted to groups: (group_id, event_title) of each voting message;
\* postbacks carry the ids of one of them
Polls == {<<(<<"g">>), (<<"a">>)>>,
          <<(<<"g">>), (<<"a", "_", "a">>)>>,
          <<(<<"g", "_", "a">>), (<<"a">>)>>}
IndexSet == 0..MaxIndex
\* timestamps are hours of one day; these are the ones isoformat() writes
IsoStamps == 0..23
\* the window a voting message encodes in the postback of its option i:
\* f"vote_{group_id}_{event_title}_{i}_{option['start']}_{option['end']}"
OfferedWindow(i) == [start |-> 9 + i, end |-> 10 + i]

\* ---------------------------------------------------------------- state
VARIABLES
    votes_defined,  \* "_votes" in globals()
    votes,          \* the module-level dict _votes: vote_key -> session
    calendar,       \* events inserted by register_calendar_event, in order
    pushed,         \* group messages delivered by push_message, in order
    last,           \* the most recent handler call: arguments, effects, result
    ops,            \* number of handler calls so far
    postback,       \* one postback of a voting message on its way through handle_postback
    finder,         \* one call of find_available_times: arguments, slots, result
    message,        \* one call of create_voting_message: arguments, buttons
    run             \* one call of find_available_times, loop iteration by loop iteration

vars == <<votes_defined, votes, calendar, pushed, last, ops, postback, finder, message, run>>

\* ---------------------------------------------------------------- helpers
EmptyDict == [x \in {} |-> x]

\* a store rebuilt on every call: _votes = {key: session}
DictPut_reset(d, k, v) == [x \in {k} |-> v]

DictPut(d, k, v) == [x \in (DOMAIN d) \cup {k} |-> IF x = k THEN v ELSE d[x]]

DictDel(d, k) == [x \in (DOMAIN d) \ {k} |-> d[x]]

\* a key built from the title alone
vote_key_title(group_id, event_title) == event_title

\* f"{group_id}_{event_title}"
vote_key(group_id, event_title) == group_id \o <<"_">> \o event_title

\* position (1-based) of user_id in the ballots dict, 0 when absent
RECURSIVE BallotPos(_, _, _)
BallotPos(ballots, user_id, j) ==
    IF j > Len(ballots) THEN 0
    ELSE IF ballots[j].user = user_id THEN j
    ELSE BallotPos(ballots, user_id, j + 1)

\* ballots kept as a list: every vote is appended
BallotSet_append(ballots, user_id, option_index) ==
    Append(ballots, [user |-> user_id, index |-> option_index])

\* the ballots dict replaced by one holding the caller's ballot alone
BallotSet_only(ballots, user_id, option_index) ==
    <<[user |-> user_id, index |-> option_index]>>

\* ballots[user_id] = option_index on an insertion-ordered dict
BallotSet(ballots, user_id, option_index) ==
    LET p == BallotPos(ballots, user_id, 1) IN
    IF p = 0 THEN Append(ballots, [user |-> user_id, index |-> option_index])
    ELSE [ballots EXCEPT ![p] = [user |-> user_id, index |-> option_index]]

NewSession(event_title) == [title |-> event_title, options |-> <<>>, votes |-> <<>>]

NoSession == [title |-> <<>>, options |-> <<>>, votes |-> <<>>]

\* the append test with < in place of <=
AppendOption_less(options, option_index, window) ==
    IF Len(options) < option_index THEN Append(options, window) ELSE options

\* a new option put in front of the list instead of at its end
AppendOption_front(options, option_index, window) ==
    IF Len(options) <= option_index THEN <<window>> \o options ELSE options

\* if len(options) <= option_index: options.append({start, end})
AppendOption(options, option_index, window) ==
    IF Len(options) <= option_index THEN Append(options, window) ELSE options

\* the session after the body of process_vote ran on session vd
VoteOn(vd, user_id, option_index, window) ==
    [vd EXCEPT !.options = AppendOption(vd.options, option_index, window),
               !.votes = BallotSet(vd.votes, user_id, option_index)]

NoCall ==
    [op |-> "none", user |-> "", group |-> <<>>, title |-> <<>>, index |-> 0,
     window |-> [start |-> 0, end |-> 0], ret |-> FALSE, had |-> FALSE,
     pre |-> NoSession, stage |-> "none", winner |-> 0 - 1, created |-> <<>>,
     sent |-> <<>>, after_close |-> FALSE, registered |-> 0]

\* the previous call was a close_voting on key k that returned True
ClosedJustBefore(k) ==
    last.op = "close" /\ last.ret /\ vote_key(last.group, last.title) = k

\* no postback under way, no finder call under way, no message being built
NoPostback == [phase |-> "idle"]

NoFinder == [phase |-> "idle"]

NoMessage == [phase |-> "idle"]

NoRun == [pc |-> "idle"]

\* the voting state of a freshly started process
InitVoting ==
    /\ votes_defined = FALSE
    /\ votes = EmptyDict
    /\ calendar = <<>>
    /\ pushed = <<>>
    /\ last = NoCall
    /\ ops = 0

Init ==
    /\ InitVoting
    /\ postback = NoPostback
    /\ finder = NoFinder
    /\ message = NoMessage
    /\ run = NoRun

\* ---------------------------------------------------------------- process_vote
process_vote(user_id, group_id, event_title, option_index, window) ==
    LET k == vote_key(group_id, event_title)
        had == k \in DOMAIN votes
        vd == IF had THEN votes[k] ELSE NewSession(event_title)
    IN
    /\ ops < MaxOps
    /\ votes_defined' = TRUE
    /\ votes' = DictPut(votes, k, VoteOn(vd, user_id, option_index, window))
    /\ last' = [NoCall EXCEPT !.op = "vote", !.user = user_id, !.group = group_id,
                              !.title = event_title, !.index = option_index,
                              !.window = window, !.ret = TRUE, !.had = had,
                              !.pre = IF had THEN votes[k] ELSE NoSession,
                              !.after_close = ClosedJustBefore(k)]
    /\ ops' = ops + 1
    /\ UNCHANGED <<calendar, pushed>>

Vote ==
    \E user_id \in Users, poll \in Polls, option_index \in IndexSet :
        /\ process_vote(user_id, poll[1], poll[2], option_index, OfferedWindow(option_index))
        /\ UNCHANGED <<postback, finder, message, run>>

\* ---------------------------------------------------------------- close_voting
\* option_counts[option_index] += 1 for each ballot from position j on; a
\* Python list accepts the indices -len..len-1 and raises IndexError otherwise
RECURSIVE CountBallots(_, _, _)
CountBallots(option_counts, ballots, j) ==
    IF j > Len(ballots) THEN [raised |-> FALSE, counts |-> option_counts]
    ELSE LET i == ballots[j].index
             n == Len(option_counts)
             p == IF i >= 0 THEN i + 1 ELSE n + i + 1
         IN IF i >= n \/ i < 0 - n
            THEN [raised |-> TRUE, counts |-> option_counts]
            ELSE CountBallots([option_counts EXCEPT ![p] = @ + 1], ballots, j + 1)

\* a tally list sized by the ballots: [0] * len(votes)
option_counts_by_ballots(vd) == CountBallots([i \in 1..Len(vd.votes) |-> 0], vd.votes, 1)

\* option_counts = [0] * len(options), then the counting loop
option_counts(vd) == CountBallots([i \in 1..Len(vd.options) |-> 0], vd.votes, 1)

\* the smallest tally instead of the largest: min(option_counts)
max_votes_min(counts) ==
    CHOOSE m \in {counts[i] : i \in 1..Len(counts)} :
        \A i \in 1..Len(counts) : m <= counts[i]

\* max(option_counts), for a non-empty list
max_votes(counts) ==
    CHOOSE m \in {counts[i] : i \in 1..Len(counts)} :
        \A i \in 1..Len(counts) : counts[i] <= m

\* [i for i, count in enumerate(option_counts) if count == max_votes]
RECURSIVE winning_indices(_, _)
winning_indices(counts, i) ==
    IF i >= Len(counts) THEN <<>>
    ELSE (IF counts[i + 1] = max_votes(counts) THEN <<i>> ELSE <<>>)
         \o winning_indices(counts, i + 1)

\* winning_indices[-1]
winning_index_last(counts) ==
    winning_indices(counts, 0)[Len(winning_indices(counts, 0))]

\* winning_indices[0]
winning_index(counts) == winning_indices(counts, 0)[1]

\* the tally raises: IndexError in the loop, or ValueError of max([])
TallyRaises(vd) == option_counts(vd).raised \/ Len(vd.options) = 0

\* only the users whose ballot is the winning option
Voters_winning(vd) ==
    LET w == winning_indices(option_counts(vd).counts, 0)[1]
        f == SelectSeq(vd.votes, LAMBDA b : b.index = w)
    IN [j \in 1..Len(f) |-> f[j].user]

\* vote_data["votes"].keys(), in dict order
Voters(vd) == [j \in 1..Len(vd.votes) |-> vd.votes[j].user]

\* number of leading voters whose register_calendar_event returns
RECURSIVE Registered(_, _, _)
Registered(voters, failing, j) ==
    IF j > Len(voters) \/ voters[j] \in failing THEN j - 1
    ELSE Registered(voters, failing, j + 1)

\* the event register_calendar_event inserts
CalendarEvent(user_id, option, event_title) ==
    [user |-> user_id, start |-> option.start, end |-> option.end, title |-> event_title]

\* datetime.fromisoformat accepts the string
IsIso(stamp) == stamp \in IsoStamps

\* the message pushed to the group; strftime of the parsed start is the
\* start itself up to formatting
GroupMessage(group_id, event_title, start) ==
    [to |-> group_id, title |-> event_title, start |-> start]

\* where the try block of close_voting stops on session vd:
\* "tally" | "commit" | "format" | "push" raise, "done" reaches return True
CloseStage(vd, failing, push_ok) ==
    IF TallyRaises(vd) THEN "tally"
    ELSE LET option == vd.options[winning_index(option_counts(vd).counts) + 1] IN
         IF Registered(Voters(vd), failing, 1) < Len(Voters(vd)) THEN "commit"
         ELSE IF ~IsIso(option.start) THEN "format"
         ELSE IF ~push_ok THEN "push"
         ELSE "done"

\* a commit loop that deletes the events it inserted when a later one fails
Created_rolled_back(vd, event_title, failing) ==
    IF TallyRaises(vd) \/ Registered(Voters(vd), failing, 1) < Len(Voters(vd)) THEN <<>>
    ELSE LET option == vd.options[winning_index(option_counts(vd).counts) + 1]
             voters == Voters(vd)
         IN [j \in 1..Len(voters) |-> CalendarEvent(voters[j], option, event_title)]

\* events inserted by the commit loop before it ends or raises
Created(vd, event_title, failing) ==
    IF TallyRaises(vd) THEN <<>>
    ELSE LET option == vd.options[winning_index(option_counts(vd).counts) + 1]
             voters == Voters(vd)
         IN [j \in 1..Registered(voters, failing, 1) |->
                CalendarEvent(voters[j], option, event_title)]

\* teardown in a finally-like position: whenever the tally succeeded
Deleted_after_tally(stage) == stage \in {"commit", "format", "push", "done"}

\* teardown forgotten
Deleted_never(stage) == FALSE

\* del _votes[vote_key] is reached
Deleted(stage) == stage = "done"

\* failing: the users whose register_calendar_event raises during this call;
\* push_ok: push_message returns
close_voting(group_id, event_title, failing, push_ok) ==
    LET k == vote_key(group_id, event_title)
        had == votes_defined /\ k \in DOMAIN votes
        vd == IF had THEN votes[k] ELSE NoSession
        stage == IF had THEN CloseStage(vd, failing, push_ok) ELSE "absent"
        created == IF had THEN Created(vd, event_title, failing) ELSE <<>>
        registered == IF had /\ stage # "tally"
                      THEN Registered(Voters(vd), failing, 1) ELSE 0
        win == IF had /\ stage # "tally"
               THEN winning_index(option_counts(vd).counts) ELSE 0 - 1
        sent == IF stage = "done"
                THEN <<GroupMessage(group_id, event_title, vd.options[win + 1].start)>>
                ELSE <<>>
    IN
    /\ ops < MaxOps
    /\ calendar' = calendar \o created
    /\ pushed' = pushed \o sent
    /\ votes' = IF had /\ Deleted(stage) THEN DictDel(votes, k) ELSE votes
    /\ last' = [NoCall EXCEPT !.op = "close", !.group = group_id,
                              !.title = event_title, !.ret = (stage = "done"),
                              !.had = had, !.pre = vd, !.stage = stage,
                              !.winner = win, !.created = created, !.sent = sent,
                              !.after_close = ClosedJustBefore(k),
                              !.registered = registered]
    /\ ops' = ops + 1
    /\ UNCHANGED votes_defined

Close ==
    \E poll \in Polls, failing \in {{}} \cup {{u} : u \in Users}, push_ok \in BOOLEAN :
        /\ close_voting(poll[1], poll[2], failing, push_ok)
        /\ UNCHANGED <<postback, finder, message, run>>

Next == Vote \/ Close

Spec == Init /\ [][Next]_vars

\* ---------------------------------------------------------------- postbacks
\* A postback string is a sequence of one-character strings.
Digits == <<"0", "1", "2", "3", "4", "5", "6", "7", "8", "9">>

\* str(n) for 0 <= n <= 99
DecStr(n) ==
    IF n < 10 THEN <<Digits[n + 1]>>
    ELSE <<Digits[(n \div 10) + 1], Digits[(n % 10) + 1]>>

\* the isoformat() text of a timestamp: no "_" in it
IsoText(stamp) == <<"T">> \o DecStr(stamp)

\* f"vote_{group_id}_{event_title}_{i}_{option['start']}_{option['end']}"
vote_data(group_id, event_title, i, option) ==
    <<"v", "o", "t", "e", "_">> \o group_id \o <<"_">> \o event_title \o <<"_">>
        \o DecStr(i) \o <<"_">> \o IsoText(option.start) \o <<"_">> \o IsoText(option.end)

\* f"close_vote_{group_id}_{event_title}"
close_data(group_id, event_title) ==
    <<"c", "l", "o", "s", "e", "_", "v", "o", "t", "e", "_">>
        \o group_id \o <<"_">> \o event_title

\* data.startswith(prefix)
startswith(data, prefix) ==
    Len(data) >= Len(prefix) /\ SubSeq(data, 1, Len(prefix)) = prefix

\* position of the first "_" of s, 0 when there is none
RECURSIVE FirstSep(_, _)
FirstSep(s, j) ==
    IF j > Len(s) THEN 0
    ELSE IF s[j] = "_" THEN j
    ELSE FirstSep(s, j + 1)

\* s.split("_", maxsplit)
RECURSIVE split(_, _)
split(s, maxsplit) ==
    LET p == FirstSep(s, 1) IN
    IF maxsplit = 0 \/ p = 0 THEN <<s>>
    ELSE <<SubSeq(s, 1, p - 1)>> \o split(SubSeq(s, p + 1, Len(s)), maxsplit - 1)

\* int(text) returns: text is a non-empty run of digits
IsInt(text) ==
    Len(text) > 0 /\ \A j \in 1..Len(text) : \E d \in 1..10 : Digits[d] = text[j]

\* int(text)
RECURSIVE IntOf(_)
IntOf(text) ==
    IF Len(text) = 0 THEN 0
    ELSE 10 * IntOf(SubSeq(text, 1, Len(text) - 1))
         + ((CHOOSE d \in 1..10 : Digits[d] = text[Len(text)]) - 1)

NoDispatch ==
    [outcome |-> "none", group |-> <<>>, title |-> <<>>, index |-> 0,
     start |-> <<>>, end |-> <<>>]

\* what handle_postback does with postback data: the call it makes and its
\* arguments; "raised" when int(option_index) raises ValueError, "ignored"
\* when no branch applies
Dispatch(data) ==
    IF startswith(data, <<"v", "o", "t", "e", "_">>)
    THEN LET parts == split(data, 5) IN
         IF Len(parts) >= 6
         THEN IF IsInt(parts[4])
              THEN [outcome |-> "vote", group |-> parts[2], title |-> parts[3],
                    index |-> IntOf(parts[4]), start |-> parts[5], end |-> parts[6]]
              ELSE [NoDispatch EXCEPT !.outcome = "raised"]
         ELSE [NoDispatch EXCEPT !.outcome = "ignored"]
    ELSE IF startswith(data, <<"c", "l", "o", "s", "e", "_", "v", "o", "t", "e", "_">>)
    THEN LET parts == split(data, 3) IN
         IF Len(parts) >= 4
         THEN [NoDispatch EXCEPT !.outcome = "close", !.group = parts[3], !.title = parts[4]]
         ELSE [NoDispatch EXCEPT !.outcome = "ignored"]
    ELSE [NoDispatch EXCEPT !.outcome = "ignored"]

\* longest event title tried
MaxTitleLen == 3

\* group ids and event titles of the voting messages tried
PostbackGroups == {<<"g">>, <<"g", "_", "a">>}

PostbackTitles ==
    UNION {[1..n -> {"a", "_", "1"}] : n \in 1..MaxTitleLen}

\* the buttons of the voting messages: one vote button per option, one close
\* button per message, each with the postback data create_voting_message gives it
Buttons ==
    {[phase |-> "sent", kind |-> "vote", group |-> g, title |-> t, index |-> i,
      data |-> vote_data(g, t, i, OfferedWindow(i)), call |-> NoDispatch] :
        g \in PostbackGroups, t \in PostbackTitles, i \in IndexSet}
    \cup
    {[phase |-> "sent", kind |-> "close", group |-> g, title |-> t, index |-> 0,
      data |-> close_data(g, t), call |-> NoDispatch] :
        g \in PostbackGroups, t \in PostbackTitles}

InitPostback ==
    /\ InitVoting
    /\ finder = NoFinder
    /\ message = NoMessage
    /\ run = NoRun
    /\ postback \in Buttons

\* handle_postback up to the call of process_vote / close_voting
handle_postback ==
    /\ postback.phase = "sent"
    /\ postback' = [postback EXCEPT !.phase = "handled", !.call = Dispatch(postback.data)]
    /\ UNCHANGED <<votes_defined, votes, calendar, pushed, last, ops, finder, message, run>>

NextPostback == handle_postback

SpecPostback == InitPostback /\ [][NextPostback]_vars

\* ---------------------------------------------------------------- create_voting_message
\* the default of max_options
DefaultMaxOptions == 5

\* longest list of windows tried
MaxWindows == 7

\* a slice that keeps the whole list
slice_all(seq, k) == seq

\* seq[:k] for k >= 0
slice(seq, k) == SubSeq(seq, 1, IF k < Len(seq) THEN k ELSE Len(seq))

\* the vote buttons: enumerate(options) numbers the options from 0
vote_buttons(group_id, event_title, options) ==
    [p \in 1..Len(options) |->
        [label |-> options[p].start,
         data |-> vote_data(group_id, event_title, p - 1, options[p])]]

\* chronological lists of windows, as find_available_times returns them
WindowLists ==
    {[k \in 1..n |-> OfferedWindow(first + k - 1)] : n \in 0..MaxWindows, first \in {0, 1}}

\* the calls tried; max_options is never negative
MessageRequests ==
    {[phase |-> "called", group |-> g, title |-> t, available_times |-> av,
      max_options |-> m, close |-> <<>>, buttons |-> <<>>] :
        g \in PostbackGroups, t \in {<<"a">>, <<"a", "_", "1">>},
        av \in WindowLists, m \in 0..MaxWindows}

InitMessage ==
    /\ InitVoting
    /\ postback = NoPostback
    /\ finder = NoFinder
    /\ run = NoRun
    /\ message \in MessageRequests

create_voting_message ==
    /\ message.phase = "called"
    /\ LET options == slice(message.available_times, message.max_options) IN
       message' = [message EXCEPT
                      !.phase = "created",
                      !.close = close_data(message.group, message.title),
                      !.buttons = vote_buttons(message.group, message.title, options)]
    /\ UNCHANGED <<votes_defined, votes, calendar, pushed, last, ops, postback, finder, run>>

NextMessage == create_voting_message

SpecMessage == InitMessage /\ [][NextMessage]_vars

\* ---------------------------------------------------------------- find_available_times
\* A datetime is a number of minutes since Monday 00:00 of the first week.
DayMinutes == 1440
WorkStartHour == 9
WorkEndHour == 18
SlotMinutes == 30

\* datetime.weekday(): Monday is 0
weekday(dt) == (dt \div DayMinutes) % 7

\* dt.replace(hour=h, minute=0, second=0, microsecond=0)
replace_hour(dt, h) == (dt \div DayMinutes) * DayMinutes + h * 60

\* the inner while loop: slot k starts 30 (k - 1) minutes after slot_start,
\* for as long as that start is before day_end
DaySlots(slot_start, day_end) ==
    LET n == IF slot_start < day_end
             THEN (day_end - slot_start + SlotMinutes - 1) \div SlotMinutes
             ELSE 0
    IN [k \in 1..n |-> [start |-> slot_start + (k - 1) * SlotMinutes,
                        end |-> slot_start + k * SlotMinutes,
                        available |-> TRUE]]

\* the outer while loop: current_dt steps by one day while current_dt < end_dt
RECURSIVE GenerateSlots(_, _)
GenerateSlots(current_dt, end_dt) ==
    IF current_dt < end_dt
    THEN (IF weekday(current_dt) < 5
          THEN DaySlots(replace_hour(current_dt, WorkStartHour),
                        replace_hour(current_dt, WorkEndHour))
          ELSE <<>>)
         \o GenerateSlots(current_dt + DayMinutes, end_dt)
    ELSE <<>>

\* a calendar read that lists the events although the read failed
get_calendar_events_unfailing(cal, down, user_id, start_time, end_time) ==
    LET listed(ev) == ev.end > start_time /\ ev.start < end_time
    IN SelectSeq(cal[user_id], listed)

\* get_calendar_events: the events of the user's calendar between timeMin =
\* start_time and timeMax = end_time (an event is listed when it ends after
\* timeMin and starts before timeMax), [] when the read fails
get_calendar_events(cal, down, user_id, start_time, end_time) ==
    LET listed(ev) == ev.end > start_time /\ ev.start < end_time
    IN IF user_id \in down THEN <<>> ELSE SelectSeq(cal[user_id], listed)

\* all_events over [organizer_id] + participant_ids, from position j on
RECURSIVE AllEvents(_, _, _, _, _, _)
AllEvents(cal, down, user_ids, start_date, end_date, j) ==
    IF j > Len(user_ids) THEN <<>>
    ELSE get_calendar_events(cal, down, user_ids[j], start_date, end_date)
         \o AllEvents(cal, down, user_ids, start_date, end_date, j + 1)

\* the overlap test with closed intervals instead
Overlaps_closed(slot, event) == slot.start <= event.end /\ slot.end >= event.start

\* if slot_start < event_end and slot_end > event_start
Overlaps(slot, event) == slot.start < event.end /\ slot.end > event.start

\* the marking loops from event j on; an all-day event has no "dateTime"
\* key, so event["start"]["dateTime"] raises KeyError
RECURSIVE MarkSlots(_, _, _)
MarkSlots(slots, events, j) ==
    IF j > Len(events) THEN [raised |-> FALSE, slots |-> slots]
    ELSE IF events[j].kind # "timed" THEN [raised |-> TRUE, slots |-> slots]
    ELSE MarkSlots([p \in 1..Len(slots) |->
                       IF Overlaps(slots[p], events[j])
                       THEN [slots[p] EXCEPT !.available = FALSE]
                       ELSE slots[p]],
                   events, j + 1)

\* required_consecutive_slots = duration_minutes // 30
required_slots(duration_minutes) == duration_minutes \div SlotMinutes

\* the for loop over range(required): slots[i + j] of a 0-based list
ConsecutiveAvailable(slots, i, required) ==
    \A j \in 0..(required - 1) : i + j < Len(slots) /\ slots[i + j + 1].available

\* the while loop: i runs over 0 .. len(slots) - required in order, and every
\* i whose check passes appends one window; slots[i] raises IndexError when
\* i is not a position of slots, and times is available_times at that point
ScanSlots(slots, required, duration_minutes) ==
    LET last_i == Len(slots) - required
        indices == [i \in 1..(IF last_i >= 0 THEN last_i + 1 ELSE 0) |-> i - 1]
        passes(i) == ConsecutiveAvailable(slots, i, required)
        inside(i) == i < Len(slots)
        hits == SelectSeq(indices, passes)
        appended == SelectSeq(hits, inside)
    IN [raised |-> Len(appended) < Len(hits),
        times |-> [h \in 1..Len(appended) |->
                     [start |-> slots[appended[h] + 1].start,
                      end |-> slots[appended[h] + 1].start + duration_minutes]]]

\* a return that hands out available_times also after an exception
FinderReturn_partial(scan) == scan.times

\* return available_times, or [] from the except clause
FinderReturn(scan) == IF scan.raised THEN <<>> ELSE scan.times

\* the body of find_available_times on request f
FindResult(f) ==
    LET events == AllEvents(f.cal, f.down, <<f.organizer>> \o f.participants,
                            f.start, f.end, 1)
        marked == MarkSlots(GenerateSlots(f.start, f.end), events, 1)
        scan == IF marked.raised THEN [raised |-> TRUE, times |-> <<>>]
                ELSE ScanSlots(marked.slots, required_slots(f.duration), f.duration)
    IN [slots |-> marked.slots,
        marked |-> ~marked.raised,
        raised |-> scan.raised,
        appended |-> scan.times,
        result |-> FinderReturn(scan)]

\* longest date range tried, in days
MaxRangeDays == 3

\* first days of the ranges tried: a Monday, a Friday, a Saturday
StartDays == {0, 4, 5}

\* times of day of start_date and of end_date, in minutes: 00:00 and 12:00,
\* and 00:00, 10:00 and 23:59
StartTimes == {0, 720}
EndTimes == {0, 600, DayMinutes - 1}

\* <<start_date, end_date>> in minutes since the Monday 00:00 of day 0
FinderRanges ==
    {<<d * DayMinutes + s, (d + n) * DayMinutes + t>> :
        d \in StartDays, n \in 0..MaxRangeDays, s \in StartTimes, t \in EndTimes}

\* durations requested, in minutes
Durations == {0, 15, 30, 45, 60}

\* calendar events on the first Monday and Friday; EvMon18 lies after the
\* working window
EvMon10 == [kind |-> "timed", start |-> 600, end |-> 660]
EvMon0945 == [kind |-> "timed", start |-> 585, end |-> 615]
EvMon08 == [kind |-> "timed", start |-> 480, end |-> 540]
EvMon18 == [kind |-> "timed", start |-> 1080, end |-> 1140]
EvMonAllDay == [kind |-> "allday", start |-> 0, end |-> 1440]
EvFri1730 == [kind |-> "timed", start |-> 4 * 1440 + 1050, end |-> 4 * 1440 + 1110]

UserCalendars ==
    {<<>>, <<EvMon10>>, <<EvMon0945>>, <<EvMon08, EvMon10>>, <<EvMon18>>,
     <<EvMonAllDay>>, <<EvFri1730>>}

FinderRequests ==
    {[phase |-> "called", organizer |-> "A", participants |-> <<"B">>,
      start |-> r[1], end |-> r[2], duration |-> dur,
      cal |-> [u \in {"A", "B"} |-> IF u = "A" THEN ca ELSE cb], down |-> dn,
      slots |-> <<>>, marked |-> FALSE, raised |-> FALSE, appended |-> <<>>,
      result |-> <<>>] :
        r \in FinderRanges, dur \in Durations,
        ca \in UserCalendars, cb \in UserCalendars, dn \in {{}, {"B"}}}

InitFinder ==
    /\ InitVoting
    /\ postback = NoPostback
    /\ message = NoMessage
    /\ run = NoRun
    /\ finder \in FinderRequests

find_available_times ==
    /\ finder.phase = "called"
    /\ LET res == FindResult(finder) IN
       finder' = [finder EXCEPT !.phase = "returned", !.slots = res.slots,
                                !.marked = res.marked, !.raised = res.raised,
                                !.appended = res.appended,
                                !.result = res.result]
    /\ UNCHANGED <<votes_defined, votes, calendar, pushed, last, ops, postback, message, run>>

NextFinder == find_available_times

SpecFinder == InitFinder /\ [][NextFinder]_vars

\* ---------------------------------------------------------------- the loops of find_available_times
\* The same call, one loop iteration per step: slots are counted instead
\* of listed, busy holds the 0-based positions of the unavailable slots.

\* longest date range tried step by step, in days
MaxStepDays == 2

\* an index that is not advanced
next_index_stuck(i) == i

\* i += 1
next_index(i) == i + 1

\* the for loop over range(required): True when required <= 0
CheckPasses(nslots, busy, i, required) ==
    \A j \in 0..(required - 1) : i + j < nslots /\ (i + j) \notin busy

StepRequests ==
    {[pc |-> "called", start |-> d * DayMinutes + s, end |-> (d + n) * DayMinutes + t,
      duration |-> dur, busy |-> b, current_dt |-> 0, slot_start |-> 0, day_end |-> 0,
      nslots |-> 0, required |-> 0, i |-> 0, appended |-> 0, ret |-> "none"] :
        d \in {0, 4}, n \in 0..MaxStepDays, s \in StartTimes, t \in {0, 600},
        dur \in {0 - 60, 0 - 15, 0, 15, 30, 60}, b \in {{}, {0}, {1, 2}}}

InitSteps ==
    /\ InitVoting
    /\ postback = NoPostback
    /\ finder = NoFinder
    /\ message = NoMessage
    /\ run \in StepRequests

\* current_dt = start_dt
run_enter ==
    /\ run.pc = "called"
    /\ run' = [run EXCEPT !.pc = "days", !.current_dt = run.start]
    /\ UNCHANGED <<votes_defined, votes, calendar, pushed, last, ops, postback, finder, message>>

\* one test of "while current_dt < end_dt" and the weekday test after it
run_day ==
    /\ run.pc = "days"
    /\ run' = IF run.current_dt < run.end
              THEN IF weekday(run.current_dt) < 5
                   THEN [run EXCEPT !.pc = "slots",
                                    !.slot_start = replace_hour(run.current_dt, WorkStartHour),
                                    !.day_end = replace_hour(run.current_dt, WorkEndHour)]
                   ELSE [run EXCEPT !.current_dt = run.current_dt + DayMinutes]
              ELSE [run EXCEPT !.pc = "scan", !.i = 0,
                               !.required = required_slots(run.duration)]
    /\ UNCHANGED <<votes_defined, votes, calendar, pushed, last, ops, postback, finder, message>>

\* one test of "while slot_start < day_end" and its body
run_slot ==
    /\ run.pc = "slots"
    /\ run' = IF run.slot_start < run.day_end
              THEN [run EXCEPT !.nslots = run.nslots + 1,
                               !.slot_start = run.slot_start + SlotMinutes]
              ELSE [run EXCEPT !.pc = "days", !.current_dt = run.current_dt + DayMinutes]
    /\ UNCHANGED <<votes_defined, votes, calendar, pushed, last, ops, postback, finder, message>>

\* one test of "while i <= len(slots) - required" and its body; slots[i]
\* raises IndexError when i >= len(slots), and the call returns []
run_scan ==
    /\ run.pc = "scan"
    /\ run' = IF run.i <= run.nslots - run.required
              THEN IF CheckPasses(run.nslots, run.busy, run.i, run.required)
                   THEN IF run.i >= run.nslots
                        THEN [run EXCEPT !.pc = "returned", !.ret = "empty"]
                        ELSE [run EXCEPT !.appended = run.appended + 1,
                                         !.i = next_index(run.i)]
                   ELSE [run EXCEPT !.i = next_index(run.i)]
              ELSE [run EXCEPT !.pc = "returned", !.ret = "windows"]
    /\ UNCHANGED <<votes_defined, votes, calendar, pushed, last, ops, postback, finder, message>>

NextSteps == run_enter \/ run_day \/ run_slot \/ run_scan

\* a call that has started keeps executing
SpecSteps == InitSteps /\ [][NextSteps]_vars /\ WF_vars(NextSteps)

\* ---------------------------------------------------------------- vocabulary of the properties
\* the session key of a (group_id, event_title) pair, as a string
KeyOf(group_id, event_title) == group_id \o <<"_">> \o event_title

\* the call that led to the current state, in a step s -> s'
IsCall(op) == ops' = ops + 1 /\ last'.op = op

\* the users holding a ballot in session vd
VoterSet(vd) == {vd.votes[j].user : j \in 1..Len(vd.votes)}

\* the ballots (positions in the dict) of user u in session vd
BallotsOf(vd, u) == {j \in 1..Len(vd.votes) : vd.votes[j].user = u}

\* number of users whose ballot in session vd is option i
BallotCount(vd, i) == Cardinality({j \in 1..Len(vd.votes) : vd.votes[j].index = i})

\* the events appended to the calendar by a step
Added == SubSeq(calendar', Len(calendar) + 1, Len(calendar'))

\* the messages pushed by a step
Sent == SubSeq(pushed', Len(pushed) + 1, Len(pushed'))

\* C1: when close_voting resolves a winner, it is the lowest index among the
\* options whose ballot count is the maximum: no option has more ballots than
\* the winner and every option listed before it has strictly fewer.
C1_LowestIndexOfMaxWins ==
    (last.op = "close" /\ last.stage \notin {"absent", "tally"}) =>
        LET vd == last.pre
            w == last.winner
        IN /\ w \in 0..(Len(vd.options) - 1)
           /\ \A i \in 0..(Len(vd.options) - 1) : BallotCount(vd, i) <= BallotCount(vd, w)
           /\ \A i \in 0..(w - 1) : BallotCount(vd, i) < BallotCount(vd, w)

\* a close that resolved a tie between two options that both have ballots
C1_Witness ==
    /\ last.op = "close" /\ last.ret
    /\ \E i \in 0..(Len(last.pre.options) - 1) :
          /\ i # last.winner
          /\ BallotCount(last.pre, i) = BallotCount(last.pre, last.winner)
          /\ BallotCount(last.pre, i) > 0

\* C2: a close_voting that returns True appends to the calendar exactly one
\* event per user holding a ballot in the session, each at the start/end of
\* the winning option and titled with the event title, whatever option the
\* user voted for; no call ever creates an event for a user without a ballot
\* in the session, and earlier events are untouched.
C2_step ==
    /\ SubSeq(calendar', 1, Len(calendar)) = calendar
    /\ IsCall("vote") => Added = <<>>
    /\ IsCall("close") =>
          LET k == KeyOf(last'.group, last'.title) IN
          IF k \notin DOMAIN votes THEN Added = <<>> /\ ~last'.ret
          ELSE LET vd == votes[k] IN
               /\ \A j \in 1..Len(Added) : Added[j].user \in VoterSet(vd)
               /\ last'.ret =>
                     /\ Len(Added) = Cardinality(VoterSet(vd))
                     /\ \E w \in 0..(Len(vd.options) - 1) :
                           /\ \A i \in 0..(Len(vd.options) - 1) :
                                 BallotCount(vd, i) <= BallotCount(vd, w)
                           /\ \A i \in 0..(w - 1) : BallotCount(vd, i) < BallotCount(vd, w)
                           /\ \A u \in VoterSet(vd) :
                                 \E j \in 1..Len(Added) :
                                     Added[j] = [user |-> u,
                                                 start |-> vd.options[w + 1].start,
                                                 end |-> vd.options[w + 1].end,
                                                 title |-> last'.title]

C2_CommitFanOut == [][C2_step]_vars

\* a successful close of a session in which some user voted for a losing option
C2_Witness ==
    /\ last.op = "close" /\ last.ret
    /\ Len(last.created) = 2
    /\ \E j \in 1..Len(last.pre.votes) : last.pre.votes[j].index # last.winner

\* C3 (as claimed): once the tally has succeeded, close_voting deletes the
\* session, also when event creation fails for some voter.
C3_DeletedAfterTally ==
    (last.op = "close" /\ last.stage \in {"commit", "done"}) =>
        KeyOf(last.group, last.title) \notin DOMAIN votes

\* C4: a close_voting on an existing session in which the tally, an event
\* creation or the notification raises returns False and leaves the stored
\* session (title, options, ballots) exactly as before the call; it returns
\* True only when the session has been deleted.
C4_step ==
    IsCall("close") =>
        LET k == KeyOf(last'.group, last'.title) IN
        /\ (k \in DOMAIN votes /\ last'.stage \in {"tally", "commit", "format", "push"}) =>
              /\ ~last'.ret
              /\ k \in DOMAIN votes'
              /\ votes'[k] = votes[k]
        /\ last'.ret => (k \in DOMAIN votes /\ k \notin DOMAIN votes')
        /\ (k \in DOMAIN votes /\ ~last'.ret) => (k \in DOMAIN votes' /\ votes'[k] = votes[k])

C4_AtomicFailure == [][C4_step]_vars

\* a close that failed in the commit loop after it had created an event
C4_Witness ==
    /\ last.op = "close" /\ last.stage = "commit" /\ ~last.ret
    /\ Len(last.created) > 0
    /\ KeyOf(last.group, last.title) \in DOMAIN votes

\* C5 (as claimed): every recorded ballot of every open session is a valid
\* position of that session's options.
C5_BallotsInRange ==
    \A k \in DOMAIN votes :
        \A j \in 1..Len(votes[k].votes) :
            /\ 0 <= votes[k].votes[j].index
            /\ votes[k].votes[j].index < Len(votes[k].options)

\* C6 (as claimed): a process_vote with an index not yet present in options
\* stores the submitted window at that index; with an index already present
\* it leaves options unchanged.
C6_StoredAtIndex ==
    last.op = "vote" =>
        LET vd == votes[KeyOf(last.group, last.title)] IN
        IF Len(last.pre.options) <= last.index
        THEN /\ Len(vd.options) > last.index
             /\ vd.options[last.index + 1] = last.window
        ELSE vd.options = last.pre.options

\* C7: right after a close_voting on a key returned True the key has no
\* session; a close_voting on the same key then returns False, and a
\* process_vote on the same key then creates a session that holds only the
\* title, the window and the ballot of that vote.
C7_TeardownFinality ==
    /\ (last.op = "close" /\ last.ret) => KeyOf(last.group, last.title) \notin DOMAIN votes
    /\ (last.after_close /\ last.op = "close") => (~last.ret /\ last.created = <<>> /\ last.sent = <<>>)
    /\ (last.after_close /\ last.op = "vote") =>
          /\ last.ret
          /\ KeyOf(last.group, last.title) \in DOMAIN votes
          /\ votes[KeyOf(last.group, last.title)] =
                [title |-> last.title,
                 options |-> <<last.window>>,
                 votes |-> <<[user |-> last.user, index |-> last.index]>>]

\* a vote on a key whose session the previous call closed
C7_Witness == last.after_close /\ last.op = "vote" /\ Len(pushed) = 1

\* C8: a session comes into existence only by a process_vote on its key and
\* goes out of existence only by a close_voting on its key that returns
\* True; a close_voting that returns False leaves the whole store unchanged.
C8_step ==
    /\ \A k \in (DOMAIN votes') \ (DOMAIN votes) :
          IsCall("vote") /\ KeyOf(last'.group, last'.title) = k
    /\ \A k \in (DOMAIN votes) \ (DOMAIN votes') :
          IsCall("close") /\ last'.ret /\ KeyOf(last'.group, last'.title) = k
    /\ (IsCall("close") /\ ~last'.ret) => votes' = votes

C8_Lifecycle == [][C8_step]_vars

\* a session that is open again after a close on it raised
C8_Witness ==
    /\ last.op = "close" /\ ~last.ret /\ last.stage \in {"tally", "commit", "push"}
    /\ KeyOf(last.group, last.title) \in DOMAIN votes
    /\ Cardinality(DOMAIN votes) = 2

\* C9: a close_voting on a key that has no session returns False, creates no
\* calendar event, sends no group message and leaves the vote store unchanged.
C9_step ==
    (IsCall("close") /\ (~votes_defined \/ KeyOf(last'.group, last'.title) \notin DOMAIN votes)) =>
        /\ ~last'.ret
        /\ calendar' = calendar
        /\ pushed' = pushed
        /\ votes' = votes
        /\ votes_defined' = votes_defined

C9_AbsentCloseNoEffect == [][C9_step]_vars

\* a close on an absent key while another session is open
C9_Witness ==
    /\ last.op = "close" /\ ~last.had
    /\ KeyOf(last.group, last.title) \notin DOMAIN votes
    /\ DOMAIN votes # {}

\* C10: a session holds at most one ballot per user; a process_vote sets the
\* caller's ballot to the submitted index; every other call leaves a user's
\* ballot as it was; so the tally of a session counts each user once, for
\* the index of the user's latest vote.
C10_step ==
    /\ \A k \in DOMAIN votes' : \A u \in Users : Cardinality(BallotsOf(votes'[k], u)) <= 1
    /\ IsCall("vote") =>
          LET k == KeyOf(last'.group, last'.title) IN
          /\ k \in DOMAIN votes'
          /\ \E j \in 1..Len(votes'[k].votes) :
                votes'[k].votes[j] = [user |-> last'.user, index |-> last'.index]
    /\ \A k \in (DOMAIN votes) \cap (DOMAIN votes') : \A u \in Users :
          (~(IsCall("vote") /\ last'.user = u /\ KeyOf(last'.group, last'.title) = k)) =>
              {votes[k].votes[j].index : j \in BallotsOf(votes[k], u)} =
              {votes'[k].votes[j].index : j \in BallotsOf(votes'[k], u)}
    /\ \A k \in DOMAIN votes' :
          LET tally == option_counts(votes'[k]) IN
          ~tally.raised =>
              \A i \in 0..(Len(votes'[k].options) - 1) :
                  tally.counts[i + 1] =
                      Cardinality({u \in Users : \E j \in BallotsOf(votes'[k], u) :
                                                    votes'[k].votes[j].index = i})

C10_LastWriteWins == [][C10_step]_vars

\* a user who voted option 0 and then option 1: counted once, for option 1
C10_Witness ==
    /\ last.op = "vote" /\ last.index = 1
    /\ \E j \in 1..Len(last.pre.votes) :
          last.pre.votes[j] = [user |-> last.user, index |-> 0]
    /\ LET vd == votes[KeyOf(last.group, last.title)] IN
          /\ Len(vd.votes) = 1
          /\ option_counts(vd) = [raised |-> FALSE, counts |-> <<0, 1>>]

\* C11: when the tally of a close succeeds, counts has one entry per option,
\* aligned by index, and counts[i] is the number of users whose current
\* ballot is i; an option without ballots has the entry 0.
C11_TallyAligned ==
    (last.op = "close" /\ last.stage \notin {"absent", "tally"}) =>
        LET vd == last.pre
            counts == option_counts(vd).counts
        IN /\ Len(counts) = Len(vd.options)
           /\ \A i \in 0..(Len(vd.options) - 1) :
                 counts[i + 1] = Cardinality({u \in Users : \E j \in BallotsOf(vd, u) :
                                                               vd.votes[j].index = i})

\* a close whose tally has an option with no ballot next to one with a ballot
C11_Witness ==
    /\ last.op = "close" /\ last.ret
    /\ \E i, j \in 1..Len(last.pre.options) :
          /\ option_counts(last.pre).counts[i] = 0
          /\ option_counts(last.pre).counts[j] > 0

\* C12 (as claimed): a process_vote or close_voting for one (group_id,
\* event_title) pair leaves the session of every other pair as it was.
C12_step ==
    (IsCall("vote") \/ IsCall("close")) =>
        \A poll \in Polls :
            (poll # <<last'.group, last'.title>>) =>
                LET k == KeyOf(poll[1], poll[2]) IN
                /\ (k \in DOMAIN votes) = (k \in DOMAIN votes')
                /\ (k \in DOMAIN votes) => votes'[k] = votes[k]

C12_PairsIndependent == [][C12_step]_vars

\* C13 (as claimed): after two first ballots by different users on one key,
\* both ballots are recorded in the session and the option each ballot
\* refers to has been appended exactly once.
C13_BothRecordedOneAppend ==
    (/\ ops = 2 /\ last.op = "vote" /\ last.had
     /\ Len(last.pre.votes) = 1
     /\ last.pre.votes[1].user # last.user) =>
        LET vd == votes[KeyOf(last.group, last.title)] IN
        /\ \E j \in 1..Len(vd.votes) : vd.votes[j] = last.pre.votes[1]
        /\ \E j \in 1..Len(vd.votes) : vd.votes[j] = [user |-> last.user, index |-> last.index]
        /\ \A b \in {vd.votes[j] : j \in 1..Len(vd.votes)} :
              Cardinality({p \in 1..Len(vd.options) :
                              vd.options[p] = OfferedWindow(b.index)}) = 1

\* C14: a close_voting works on the session as it is stored when the call
\* starts: the users who get an event are users of that session, on success
\* exactly its users, who are the users counted in the tally; the session
\* removed is that same session, so no ballot recorded before the close is
\* dropped uncounted, and a process_vote always leaves its ballot stored.
C14_step ==
    /\ IsCall("close") =>
          LET k == KeyOf(last'.group, last'.title) IN
          (k \in DOMAIN votes) =>
              /\ last'.pre = votes[k]
              /\ last'.stage \in {"tally", "commit", "format", "push", "done"}
              /\ {Added[j].user : j \in 1..Len(Added)} \subseteq VoterSet(votes[k])
              /\ last'.ret =>
                    /\ {Added[j].user : j \in 1..Len(Added)} = VoterSet(votes[k])
                    /\ \A u \in VoterSet(votes[k]) :
                          \E i \in 0..(Len(votes[k].options) - 1) :
                              /\ option_counts(votes[k]).counts[i + 1] > 0
                              /\ \E j \in BallotsOf(votes[k], u) : votes[k].votes[j].index = i
                    /\ k \notin DOMAIN votes'
              /\ ~last'.ret => (k \in DOMAIN votes' /\ votes'[k] = votes[k])
    /\ IsCall("vote") =>
          LET k == KeyOf(last'.group, last'.title) IN
          /\ k \in DOMAIN votes'
          /\ \E j \in 1..Len(votes'[k].votes) :
                votes'[k].votes[j] = [user |-> last'.user, index |-> last'.index]

C14_ConsistentSnapshot == [][C14_step]_vars

\* a vote on a key right after the close of that key: the ballot is kept
\* in a new session while the closed session's voters have their events
C14_Witness ==
    /\ last.op = "vote" /\ last.after_close
    /\ Len(calendar) > 0
    /\ KeyOf(last.group, last.title) \in DOMAIN votes

\* C15 (as claimed): for every button of a voting message, handle_postback
\* calls process_vote with exactly the message's group id and title, the
\* option's index and its start and end, and close_voting with exactly the
\* message's group id and title.
C15_PostbackRoundTrip ==
    postback.phase = "handled" =>
        /\ postback.kind = "vote" =>
              postback.call =
                  [outcome |-> "vote", group |-> postback.group, title |-> postback.title,
                   index |-> postback.index,
                   start |-> IsoText(OfferedWindow(postback.index).start),
                   end |-> IsoText(OfferedWindow(postback.index).end)]
        /\ postback.kind = "close" =>
              postback.call =
                  [NoDispatch EXCEPT !.outcome = "close", !.group = postback.group,
                                     !.title = postback.title]

\* ---------------------------------------------------------------------
\* Properties of find_available_times (SpecFinder)
\* ---------------------------------------------------------------------

Returned == finder.phase = "returned"

\* positions and start times of the generated slots
SlotPositions == 1..Len(finder.slots)
SlotStarts == {finder.slots[p].start : p \in SlotPositions}

\* calendar day d (00:00 to 24:00) meets the range [start, end)
DayInRange(d) ==
    LET lo == IF finder.start > d * DayMinutes THEN finder.start ELSE d * DayMinutes
        hi == IF finder.end < (d + 1) * DayMinutes THEN finder.end ELSE (d + 1) * DayMinutes
    IN lo < hi

\* start times of the 30-minute grid of the working window of day d
WorkingGrid(d) ==
    {d * DayMinutes + WorkStartHour * 60 + k * SlotMinutes :
        k \in 0..(((WorkEndHour - WorkStartHour) * 60) \div SlotMinutes - 1)}

\* C16 (as claimed): for any range [start, end) the generated slots are
\* exactly the 30-minute grid of 09:00-18:00 of every weekday that meets the
\* range, each slot with start < end, in order without gaps or overlaps, and
\* there is no slot on a Saturday or Sunday or on a day outside the range.
C16_SlotPartition ==
    Returned =>
        /\ SlotStarts =
              UNION {WorkingGrid(d) : d \in {e \in 0..(finder.end \div DayMinutes) :
                                                DayInRange(e) /\ e % 7 < 5}}
        /\ \A p \in SlotPositions :
              /\ finder.slots[p].start < finder.slots[p].end
              /\ finder.slots[p].end = finder.slots[p].start + SlotMinutes
        /\ \A p \in SlotPositions :
              p < Len(finder.slots) => finder.slots[p].end <= finder.slots[p + 1].start

\* the events the calendar reads returned for the organizer and the
\* participants: those of their calendars that meet the range
EventsRead ==
    LET users == ({finder.organizer} \cup {finder.participants[j] :
                      j \in 1..Len(finder.participants)}) \ finder.down
        events == UNION {{finder.cal[u][j] : j \in 1..Len(finder.cal[u])} : u \in users}
    IN {ev \in events : ev.end > finder.start /\ ev.start < finder.end}

\* C17: once every event is marked, a slot is unavailable if and only if
\* slot.start < event.end and slot.end > event.start for at least one event of
\* the organizer or of a participant; an event that ends exactly at the slot's
\* start or starts exactly at its end does not mark it.
C17_BusyMarking ==
    (Returned /\ finder.marked) =>
        \A p \in SlotPositions :
            (~finder.slots[p].available) <=>
                (\E ev \in EventsRead :
                    finder.slots[p].start < ev.end /\ finder.slots[p].end > ev.start)

\* a participant's event marks a slot while the slot that ends at the event's
\* start and the slot that starts at the event's end stay available
C17_Witness ==
    /\ Returned /\ finder.marked
    /\ finder.cal[finder.organizer] = <<>>
    /\ \E ev \in EventsRead : \E p, q, r \in SlotPositions :
          /\ ~finder.slots[p].available
          /\ finder.slots[q].end = ev.start /\ finder.slots[q].available
          /\ finder.slots[r].start = ev.end /\ finder.slots[r].available

\* ceil(D / G) for duration D and granularity G = 30
CeilSlots(duration_minutes) == (duration_minutes + SlotMinutes - 1) \div SlotMinutes

\* the returned windows
WindowPositions == 1..Len(finder.result)

\* slots p .. p + n - 1 all exist and are all available
RunAvailable(p, n) ==
    \A j \in 0..(n - 1) : (p + j) \in SlotPositions /\ finder.slots[p + j].available

\* C18 (as claimed): every returned window starts a run of at least
\* ceil(D / 30) consecutive available slots, and no returned window
\* [start, start + D) contains any part of an unavailable slot.
C18_WindowGeneration ==
    Returned =>
        \A k \in WindowPositions :
            /\ \E p \in SlotPositions :
                  /\ finder.slots[p].start = finder.result[k].start
                  /\ RunAvailable(p, CeilSlots(finder.duration))
            /\ \A q \in SlotPositions :
                  ~finder.slots[q].available =>
                      ~(/\ finder.slots[q].start < finder.result[k].start + finder.duration
                        /\ finder.slots[q].end > finder.result[k].start)

\* start times of a sequence of windows
StartsOf(times) == {times[k].start : k \in 1..Len(times)}

\* C19 (as claimed): a positive duration D is rounded up to full slots: the
\* start times returned for D are the start times the same request returns
\* for the duration 30 * ceil(D / 30), also when 0 < D < 30.
C19_RoundsUp ==
    (Returned /\ finder.duration > 0) =>
        StartsOf(finder.result) =
            StartsOf(FindResult([finder EXCEPT
                         !.duration = SlotMinutes * CeilSlots(finder.duration)]).result)

\* C20 (as claimed): for a positive duration, every start index i whose slots
\* i .. i + required_slots - 1 all exist and are all available is reported as
\* exactly one window (none merged or dropped), and the returned windows are
\* in strictly increasing order of start time.
C20_EveryStartReported ==
    (Returned /\ finder.marked /\ finder.duration > 0) =>
        /\ \A p \in SlotPositions :
              RunAvailable(p, CeilSlots(finder.duration)) =>
                  Cardinality({k \in WindowPositions :
                                  finder.result[k].start = finder.slots[p].start}) = 1
        /\ \A k \in WindowPositions :
              k < Len(finder.result) => finder.result[k].start < finder.result[k + 1].start

\* C21 (as claimed): no returned window overlaps an event read for the
\* organizer or a participant; and with the only event read a Monday
\* 10:00-11:00 one and a 60-minute duration, the Monday 09:00 and 11:00
\* windows are returned.
C21_NoWindowOverlapsEvent ==
    Returned =>
        /\ \A k \in WindowPositions : \A ev \in EventsRead :
              ~(finder.result[k].start < ev.end /\ finder.result[k].end > ev.start)
        /\ (finder.duration = 60 /\ EventsRead = {EvMon10}) =>
              {WorkStartHour * 60, 11 * 60} \subseteq StartsOf(finder.result)

\* the request with every user whose read fails given an empty, readable calendar
FailingAsFree ==
    [finder EXCEPT !.down = {},
                   !.cal = [u \in DOMAIN finder.cal |->
                               IF u \in finder.down THEN <<>> ELSE finder.cal[u]]]

C23_RaiseReturnsEmpty ==
    (Returned /\ finder.raised) => finder.result = <<>>

\* the scan raised after it had collected windows, and the call returned []
C23_Witness ==
    /\ Returned /\ finder.raised /\ finder.marked
    /\ finder.appended # <<>>
    /\ finder.result = <<>>

\* the index, start and end texts that follow "vote_<group>_<title>_" in data
EncodedOption(data) ==
    LET prefix == <<"v", "o", "t", "e", "_">> \o message.group \o <<"_">>
                      \o message.title \o <<"_">>
    IN split(SubSeq(data, Len(prefix) + 1, Len(data)), 2)

\* C24: the message has min(n, max_options) vote buttons, so at most
\* max_options; button i is for the i-th earliest window, in the order of the
\* list given, and the index written into its postback data is its position
\* i counted from 0.
C24_EarliestOptions ==
    message.phase = "created" =>
        LET n == Len(message.available_times)
            kept == IF n < message.max_options THEN n ELSE message.max_options
        IN /\ Len(message.buttons) = kept
           /\ Len(message.buttons) <= message.max_options
           /\ \A p \in 1..Len(message.buttons) :
                 LET parts == EncodedOption(message.buttons[p].data) IN
                 /\ Len(parts) = 3
                 /\ IsInt(parts[1]) /\ IntOf(parts[1]) = p - 1
                 /\ parts[2] = IsoText(message.available_times[p].start)
                 /\ parts[3] = IsoText(message.available_times[p].end)

\* more windows than the default max_options of 5: the list is cut
C24_Witness ==
    /\ message.phase = "created"
    /\ message.max_options = DefaultMaxOptions
    /\ Len(message.available_times) > DefaultMaxOptions
    /\ Len(message.buttons) = DefaultMaxOptions

\* C25: a close_voting that returns True pushes exactly one message, to the
\* group of the call, announcing the start of the winning option (the lowest
\* index among the most voted); a close_voting on an absent session returns
\* False and pushes nothing; messages pushed earlier stay as they are.
C25_step ==
    IsCall("close") =>
        LET k == KeyOf(last'.group, last'.title) IN
        /\ SubSeq(pushed', 1, Len(pushed)) = pushed
        /\ (~votes_defined \/ k \notin DOMAIN votes) => (~last'.ret /\ Sent = <<>>)
        /\ last'.ret =>
              /\ Len(Sent) = 1
              /\ Sent[1].to = last'.group
              /\ Sent[1].title = last'.title
              /\ \E w \in 0..(Len(votes[k].options) - 1) :
                    /\ \A i \in 0..(Len(votes[k].options) - 1) :
                          BallotCount(votes[k], i) <= BallotCount(votes[k], w)
                    /\ \A i \in 0..(w - 1) :
                          BallotCount(votes[k], i) < BallotCount(votes[k], w)
                    /\ Sent[1].start = votes[k].options[w + 1].start

C25_OneAnnouncement == [][C25_step]_vars

\* a close on an absent session right after the close that announced it
C25_Witness ==
    /\ last.op = "close" /\ ~last.had /\ ~last.ret
    /\ last.sent = <<>>
    /\ Len(pushed) = 1
    /\ pushed[1].to = last.group /\ pushed[1].title = last.title

\* C26: across every call that leaves a session open, the session's options
\* before the call are a prefix of its options after the call: a process_vote
\* appends at most one option at the end, and no process_vote or failed
\* close_voting reorders, replaces or removes an option.
C26_step ==
    \A k \in DOMAIN votes \cap DOMAIN votes' :
        /\ Len(votes[k].options) <= Len(votes'[k].options)
        /\ Len(votes'[k].options) <= Len(votes[k].options) + 1
        /\ SubSeq(votes'[k].options, 1, Len(votes[k].options)) = votes[k].options
        /\ IsCall("close") => votes'[k].options = votes[k].options

C26_OptionsAppendOnly == [][C26_step]_vars

\* a session that got a second option from a vote and survived a failed close
C26_Witness ==
    /\ last.op = "close" /\ last.had /\ ~last.ret
    /\ KeyOf(last.group, last.title) \in DOMAIN votes
    /\ Len(votes[KeyOf(last.group, last.title)].options) = 2
    /\ votes[KeyOf(last.group, last.title)].options[1]
           # votes[KeyOf(last.group, last.title)].options[2]

\* C27: when register_calendar_event raises for a voter, close_voting returns
\* False and the calendar keeps the events this call created for the voters
\* before that one (no rollback); the voter whose creation raised and the
\* voters after it get no event from this call (no retry).
C27_step ==
    (IsCall("close") /\ last'.stage = "commit") =>
        LET vd == votes[KeyOf(last'.group, last'.title)] IN
        /\ ~last'.ret
        /\ last'.registered < Len(vd.votes)
        /\ Len(Added) = last'.registered
        /\ \A j \in 1..Len(Added) :
              /\ Added[j].user = vd.votes[j].user
              /\ Added[j].title = last'.title
        /\ \A j \in (last'.registered + 1)..Len(vd.votes) :
              \A e \in 1..Len(Added) : Added[e].user # vd.votes[j].user
        /\ SubSeq(calendar', 1, Len(calendar)) = calendar

C27_NoRollbackNoRetry == [][C27_step]_vars

\* the event of the first voter is in the calendar, the creation for the
\* second voter raised
C27_Witness ==
    /\ last.op = "close" /\ last.stage = "commit" /\ ~last.ret
    /\ last.registered = 1 /\ Len(last.pre.votes) = 2
    /\ Len(calendar) = 1 /\ calendar[1].user = last.pre.votes[1].user

\* C28: every call of find_available_times returns, for every date range
\* (empty and reversed ones included) and every duration, zero and negative
\* ones included: the day loop, the slot loop and the scan loop all end.
C28_CallsReturn == <>(run.pc = "returned")

\* a call with a negative duration went through slots and returned
C28_Witness ==
    /\ run.pc = "returned"
    /\ run.duration < 0 /\ run.required < 0
    /\ run.nslots > 0

\* C29 (as claimed): every ballot for index i is submitted with the window
\* offered at i, and the events a close_voting creates have exactly the start
\* and end offered at the winning index, in whatever order the ballots came.
C29_CommittedWindowAsOffered ==
    (last.op = "close" /\ last.created # <<>>) =>
        \A j \in 1..Len(last.created) :
            /\ last.created[j].start = OfferedWindow(last.winner).start
            /\ last.created[j].end = OfferedWindow(last.winner).end

\* the events of user u titled t, and the announcements titled t
EventsFor(u, t) == {j \in 1..Len(calendar) : calendar[j].user = u /\ calendar[j].title = t}
AnnouncedFor(t) == {j \in 1..Len(pushed) : pushed[j].title = t}

\* title t names one poll, and that poll has had one lifetime so far: nothing
\* was announced for it, or the call just made is the close that announced it
OnePollSoFar(t) ==
    /\ Cardinality({poll \in Polls : poll[2] = t}) = 1
    /\ \/ AnnouncedFor(t) = {}
       \/ Cardinality(AnnouncedFor(t)) = 1 /\ last.op = "close" /\ last.ret /\ last.title = t

\* C30 (as claimed): over the close_voting calls on one poll, failed and
\* retried ones included, each voter has at most one calendar event for the
\* poll, and a close right after the close that announced it announces
\* nothing more.
C30_AtMostOnceOverRetries ==
    /\ \A poll \in Polls : \A u \in Users :
          OnePollSoFar(poll[2]) => Cardinality(EventsFor(u, poll[2])) <= 1
    /\ ~(last.op = "close" /\ last.ret /\ last.after_close)

\* C31 (as claimed): a close_voting on an open session, in which no event
\* creation and no push raises, returns True and deletes the session, whatever
\* process_vote calls built the session.
C31_CloseSucceeds ==
    (last.op = "close" /\ last.had /\ last.stage \notin {"commit", "push"}) =>
        /\ last.ret
        /\ KeyOf(last.group, last.title) \notin DOMAIN votes

\* what a close_voting whose collaborators succeed returns on session vd, and
\* the window it commits
CloseOutcome(vd) ==
    IF TallyRaises(vd) THEN [ret |-> FALSE, window |-> [start |-> 0, end |-> 0]]
    ELSE [ret |-> TRUE, window |-> vd.options[winning_index(option_counts(vd).counts) + 1]]

\* the session the two ballots of vd build when they arrive in the other order
OtherOrder(vd) ==
    LET b1 == vd.votes[1]
        b2 == vd.votes[2]
    IN VoteOn(VoteOn(NewSession(vd.title), b2.user, b2.index, OfferedWindow(b2.index)),
              b1.user, b1.index, OfferedWindow(b1.index))

\* C32 (as claimed): for a session built by one ballot each of two users, a
\* close returns the same result and commits the same window as it does on
\* the session built by the same two ballots in the other order.
C32_OrderIndependent ==
    \A k \in DOMAIN votes :
        (ops = 2 /\ Len(votes[k].votes) = 2) =>
            CloseOutcome(votes[k]) = CloseOutcome(OtherOrder(votes[k]))

\* C33: of two close_voting calls on one key that run one after the other
\* (handlers do not interleave inside a call), the one that follows a close
\* that returned True creates no event, pushes no message and returns False:
\* at most one of the two commits and announces, at most one returns True.
C33_FinalizedOnce ==
    (last.op = "close" /\ last.after_close) =>
        /\ ~last.ret
        /\ ~last.had
        /\ last.created = <<>>
        /\ last.sent = <<>>

\* the second of two closes on a key: the first one committed and announced
C33_Witness ==
    /\ last.op = "close" /\ last.after_close /\ ~last.ret
    /\ Len(calendar) = 1 /\ calendar[1].title = last.title
    /\ Len(pushed) = 1 /\ pushed[1].to = last.group

\* C34 (as claimed): every returned window starts on a weekday at or after
\* 09:00 and ends at or before 18:00 of that day, and the slots it is built
\* from follow each other in time, 30 minutes apart.
C34_WindowInsideWorkingDay ==
    Returned =>
        \A k \in WindowPositions :
            LET w == finder.result[k]
                day == w.start \div DayMinutes
            IN /\ day % 7 < 5
               /\ w.start >= day * DayMinutes + WorkStartHour * 60
               /\ w.end <= day * DayMinutes + WorkEndHour * 60
               /\ \E p \in SlotPositions :
                     /\ finder.slots[p].start = w.start
                     /\ \A j \in 0..(required_slots(finder.duration) - 1) :
                           /\ (p + j) \in SlotPositions
                           /\ finder.slots[p + j].start = w.start + j * SlotMinutes

\* C35: every session in the store has at least one option and at least one
\* ballot; so the session a close_voting finds never has an empty options
\* list, and when its tally completes the winner has at least one ballot.
C35_SessionsNonEmpty ==
    /\ \A k \in DOMAIN votes :
          Len(votes[k].options) >= 1 /\ Len(votes[k].votes) >= 1
    /\ (last.op = "close" /\ last.had) =>
          /\ Len(last.pre.options) >= 1
          /\ Len(last.pre.votes) >= 1
          /\ last.stage # "tally" =>
                /\ last.winner \in 0..(Len(last.pre.options) - 1)
                /\ BallotCount(last.pre, last.winner) >= 1

\* a close tallied a session that was created by a vote for index 1
C35_Witness ==
    /\ last.op = "close" /\ last.had /\ last.stage # "tally"
    /\ Len(last.pre.options) = 1
    /\ last.pre.options[1] = OfferedWindow(1)
    /\ BallotCount(last.pre, last.winner) = 1

\* C36: the effects of a close_voting come in the order create the events,
\* notify, delete, return True, and a step that raises ends the call: a
\* message is pushed only after an event was created for every voter, the
\* session is deleted only after the message was pushed, and True is returned
\* only after the session was deleted.
C36_CommitNotifyDeleteReturn ==
    (last.op = "close" /\ last.had) =>
        /\ last.sent # <<>> =>
              /\ Len(last.created) = Cardinality(VoterSet(last.pre))
              /\ \A u \in VoterSet(last.pre) :
                    \E j \in 1..Len(last.created) : last.created[j].user = u
        /\ KeyOf(last.group, last.title) \notin DOMAIN votes => last.sent # <<>>
        /\ last.ret => KeyOf(last.group, last.title) \notin DOMAIN votes

\* a close that returned True: two events, one message, session gone
C36_Witness ==
    /\ last.op = "close" /\ last.ret
    /\ Len(last.created) = 2 /\ Len(last.sent) = 1
    /\ calendar = last.created /\ pushed = last.sent
    /\ KeyOf(last.group, last.title) \notin DOMAIN votes

\* the sum of a list of numbers
RECURSIVE SumOf(_)
SumOf(counts) == IF counts = <<>> THEN 0 ELSE Head(counts) + SumOf(Tail(counts))

\* C37: when the tally of a close completes and a winner is chosen, the
\* counts add up to the number of distinct users holding a ballot in the
\* session, and no entry of the counts is larger than the winner's entry.
C37_TallySumsAndWinnerIsMax ==
    (last.op = "close" /\ last.had /\ last.stage # "tally") =>
        LET counts == option_counts(last.pre).counts
        IN /\ SumOf(counts) = Cardinality(VoterSet(last.pre))
           /\ \A i \in 1..Len(counts) : counts[i] <= counts[last.winner + 1]

\* a close over two voters split between two options
C37_Witness ==
    /\ last.op = "close" /\ last.had /\ last.stage # "tally"
    /\ Cardinality(VoterSet(last.pre)) = 2
    /\ option_counts(last.pre).counts = <<1, 1>>
    /\ last.winner = 0

\* the ballots of a session that belong to users other than u, in dict order
OthersBallots(vd, u) == SelectSeq(vd.votes, LAMBDA b : b.user # u)

\* C38: a process_vote by user u leaves in its session every other user's
\* ballot, the title and every option stored before the call as they were;
\* it sets u's ballot to the submitted index and adds at most one option, at
\* the end. On a key without a session the new session holds u's ballot only.
C38_VoteFrame ==
    last.op = "vote" =>
        LET post == votes[KeyOf(last.group, last.title)]
            pre == last.pre
        IN /\ OthersBallots(post, last.user) = OthersBallots(pre, last.user)
           /\ \E j \in 1..Len(post.votes) :
                 post.votes[j] = [user |-> last.user, index |-> last.index]
           /\ Len(post.votes) <= Len(pre.votes) + 1
           /\ post.title = (IF last.had THEN pre.title ELSE last.title)
           /\ Len(post.options) \in {Len(pre.options), Len(pre.options) + 1}
           /\ SubSeq(post.options, 1, Len(pre.options)) = pre.options

\* a vote by one user, naming a new option, on a session that already held
\* another user's ballot and one option
C38_Witness ==
    /\ last.op = "vote" /\ last.had
    /\ OthersBallots(last.pre, last.user) # <<>>
    /\ Len(last.pre.options) = 1
    /\ Len(votes[KeyOf(last.group, last.title)].options) = 2
    /\ Len(votes[KeyOf(last.group, last.title)].votes) = 2
====
